---- MODULE Spec2Model ----
(***************************************************************************)
(* State-machine model of the two orchestrator scripts of umiPipeline:     *)
(*   scripts/umi_pipeline.py   (fastp -> run_umierrorcorrect.py -> QC)      *)
(*   scripts/umi_forensics.py  (run_umierrorcorrect_forensics.py)           *)
(* File names are sequences of one-character strings, so that the regular  *)
(* expression, the substring tests and str.replace are computed as the     *)
(* code computes them.  multiprocessing.Pool.starmap is modelled with its   *)
(* default chunking: a chunk is one task of a worker, an exception ends     *)
(* the chunk, and starmap returns once every chunk has ended.               *)
(***************************************************************************)
EXTENDS Integers, Sequences, FiniteSets, TLC

\* ------------------------------------------------------------- bounds
MaxPrefixLen == 3
MaxSamples == 5
MaxThreads == 2
MaxFailures == 1
MaxFilesAnyConfig == 2
MaxReportFailures == 2

\* ------------------------------------------------------------ strings
None == <<>>

Alphabet == {"_", "R", "1", "2"}

Digits == {"0", "1", "2", "3", "4", "5", "6", "7", "8", "9"}

FASTQ == <<".", "f", "a", "s", "t", "q">>
FASTQ_GZ == <<".", "f", "a", "s", "t", "q", ".", "g", "z">>
FQ == <<".", "f", "q">>
FQ_GZ == <<".", "f", "q", ".", "g", "z">>
TXT == <<".", "t", "x", "t">>

Min(a, b) == IF a < b THEN a ELSE b

\* str.endswith
EndsWith(s, suf) ==
    /\ Len(suf) <= Len(s)
    /\ SubSeq(s, Len(s) - Len(suf) + 1, Len(s)) = suf

\* pat in s
Contains(s, pat) ==
    \E i \in 1..(Len(s) - Len(pat) + 1) : SubSeq(s, i, i + Len(pat) - 1) = pat

\* re: _R[12]_\d+\.f(ast)?q(\.gz)?$ matched from position i up to the end of s
\* (a file name holds no newline, so $ is the end of the string)
SuffixMatchAt(s, i) ==
    /\ i + 4 <= Len(s)
    /\ s[i] = "_"
    /\ s[i + 1] = "R"
    /\ s[i + 2] \in {"1", "2"}
    /\ s[i + 3] = "_"
    /\ \E j \in (i + 5)..(Len(s) + 1) :
          /\ \A k \in (i + 4)..(j - 1) : s[k] \in Digits
          /\ SubSeq(s, j, Len(s)) \in {FASTQ, FASTQ_GZ, FQ, FQ_GZ}

\* re.sub(r'_R[12]_\d+\.f(ast)?q(\.gz)?$', '', file): the leftmost match is removed
SampleOf(file) ==
    LET hits == {i \in 1..Len(file) : SuffixMatchAt(file, i)}
    IN  IF hits = {} THEN file
        ELSE LET i == CHOOSE x \in hits : \A y \in hits : x <= y
             IN  SubSeq(file, 1, i - 1)

\* ------------------------------------------------------------- inputs
R1_MARK == <<"_", "R", "1", "_">>
R2_MARK == <<"_", "R", "2", "_">>

R1File(prefix, n, ext) == prefix \o R1_MARK \o n \o ext
R2File(prefix, n, ext) == prefix \o R2_MARK \o n \o ext

Prefixes == UNION {[1..n -> Alphabet] : n \in 0..MaxPrefixLen}
\* run number and extension of the files of a listing
Variants == {<<<<"1">>, FASTQ_GZ>>, <<<<"1", "2">>, FASTQ_GZ>>, <<<<"1">>, FQ>>, <<<<"1">>, TXT>>}

\* directory listings holding the read files of one sample with any prefix
TestListings ==
    UNION {{<<R1File(p, v[1], v[2])>>,
            <<R2File(p, v[1], v[2])>>,
            <<R1File(p, v[1], v[2]), R2File(p, v[1], v[2])>>,
            <<R2File(p, v[1], v[2]), R1File(p, v[1], v[2])>>} :
           p \in Prefixes, v \in Variants}

FillNames == <<"a", "b", "c", "d", "e", "f", "g", "h">>
Kinds == {"both", "r1only", "r2only"}

FillFiles(i, kind) ==
    LET p == <<FillNames[i]>>
    IN  CASE kind = "both" -> <<R1File(p, <<"1">>, FASTQ_GZ), R2File(p, <<"1">>, FASTQ_GZ)>>
          [] kind = "r1only" -> <<R1File(p, <<"1">>, FASTQ_GZ)>>
          [] kind = "r2only" -> <<R2File(p, <<"1">>, FASTQ_GZ)>>

RECURSIVE FillListing(_, _)
\* k samples with one-letter names; the first one is of the given kind
FillListing(k, kind1) ==
    IF k = 0 THEN <<>>
    ELSE FillListing(k - 1, kind1) \o FillFiles(k, IF k = 1 THEN kind1 ELSE "both")

\* up to two samples of which the first is of any kind, or more samples with both reads
FillListings ==
    {FillListing(k, kind) : k \in 0..2, kind \in Kinds}
        \cup {FillListing(k, "both") : k \in 3..MaxSamples}

\* ---------------------------------------------------------- variables
VARIABLES
    script,       \* which program runs: "pipeline" or "forensics"
    args,         \* the parsed command line
    env,          \* what the run finds installed and on disk at its start
    listing,      \* the files of the input directory, in the order the OS lists them
    pc,           \* main's position
    exitcode,     \* -1 while running, then the process's exit status
    outfs,        \* what exists under the output directories
    scanned,      \* find_fastq_pairs: number of listed files handled
    fastq_files,  \* find_fastq_pairs: the dict, in insertion order
    tasks,        \* the argument list handed to starmap
    status,       \* per task: pending, a running tool, or how it ended
    busy,         \* the tasks the pool's workers are at, one per busy worker
    nextChunk,    \* the next chunk of the task queue
    doneChunks,   \* chunks whose result has arrived
    raised,       \* whether a chunk ended with an exception
    cmds,         \* per task: the external commands launched for it, in order
    exits,        \* per task: how the commands that ended have ended, in order
    qcFiles,      \* run_qc: the list rglob returned
    qcCalls,      \* run_qc: the reporting commands launched, in order
    qcExits,      \* run_qc: how the reporting commands have ended, in order
    log           \* the messages logged or printed

vars == <<script, args, env, listing, pc, exitcode, outfs, scanned, fastq_files,
          tasks, status, busy, nextChunk, doneChunks, raised, cmds, exits,
          qcFiles, qcCalls, qcExits, log>>

\* ------------------------------------------------------ configuration
OutDirs == {"filtered_fastqs", "umi_corrected_samples", "qc_reports"}
RequiredTools == {"fastp", "run_umierrorcorrect.py", "bwa", "multiqc", "fastqc"}
Outcomes == {"ok", "nonzero", "nolaunch"}
Running == {"fastp", "ec", "tool"}
Terminal == {"ok", "skipped", "failed_exit", "failed_launch"}

DirEntry(d) == [dir |-> d, file |-> None]
FileEntry(d, f) == [dir |-> d, file |-> f]

\* the output directories as the run finds them: all there from an earlier run, or none
InitialOutFs(e) == IF e.outdirs THEN {DirEntry(d) : d \in OutDirs} ELSE {}

PipelineArgs ==
    [threads : 1..MaxThreads, do_filtering : BOOLEAN, merge_reads : BOOLEAN,
     skip_fastqc : BOOLEAN, skip_multiqc : BOOLEAN, bed : BOOLEAN]

\* at most one thing is wrong with the installation and the paths
PipelineEnvs ==
    {e \in [missing : {{}, {"bwa"}}, input_dir : BOOLEAN, reference : BOOLEAN,
            bed : BOOLEAN, outdirs : BOOLEAN] :
        Cardinality({x \in {e.missing = {}, e.input_dir, e.reference, e.bed} : ~x}) <= 1}

\* listings of more than MaxFilesAnyConfig files are run with the reporting on, no
\* region file, nothing wrong and no output directory left from an earlier run
PlainConfig(a, e) ==
    /\ ~a.skip_fastqc /\ ~a.skip_multiqc /\ ~a.bed
    /\ e.missing = {} /\ e.input_dir /\ e.reference /\ e.bed /\ ~e.outdirs

ForensicsArgs ==
    [threads : 1..MaxThreads, do_filtering : {FALSE}, merge_reads : {FALSE},
     skip_fastqc : {TRUE}, skip_multiqc : {TRUE}, bed : {TRUE}]

ForensicsEnvs ==
    [missing : {{}}, input_dir : {TRUE}, reference : {TRUE}, bed : {TRUE},
     outdirs : {FALSE}]

Init ==
    /\ script \in {"pipeline", "forensics"}
    /\ IF script = "pipeline"
       THEN /\ args \in PipelineArgs
            /\ env \in PipelineEnvs
            /\ listing \in FillListings
            /\ Len(listing) <= MaxFilesAnyConfig \/ PlainConfig(args, env)
       ELSE /\ args \in ForensicsArgs
            /\ env \in ForensicsEnvs
            /\ listing \in TestListings \cup FillListings
    /\ pc = "setup"
    /\ exitcode = -1
    /\ outfs = InitialOutFs(env)
    /\ scanned = 0
    /\ fastq_files = <<>>
    /\ tasks = <<>>
    /\ status = <<>>
    /\ busy = {}
    /\ nextChunk = 1
    /\ doneChunks = 0
    /\ raised = FALSE
    /\ cmds = <<>>
    /\ exits = <<>>
    /\ qcFiles = <<>>
    /\ qcCalls = <<>>
    /\ qcExits = <<>>
    /\ log = {}

Msg(m, who) == [msg |-> m, who |-> who]

\* ------------------------------------------- umi_forensics.py discovery
\* line 18: the extension filter
IsFastq(file) ==
    \/ EndsWith(file, FASTQ)
    \/ EndsWith(file, FASTQ_GZ)
    \/ EndsWith(file, FQ)
    \/ EndsWith(file, FQ_GZ)

IndexOfSample(d, sample) ==
    IF \E i \in 1..Len(d) : d[i].sample = sample
    THEN CHOOSE i \in 1..Len(d) : d[i].sample = sample
    ELSE 0

\* lines 27-30: which role a file fills
RoleOf(file) ==
    IF Contains(file, R1_MARK) THEN "R1"
    ELSE IF Contains(file, R2_MARK) THEN "R2"
    ELSE "none"

\* lines 18-30: one file of the walk
AddFile(d, file) ==
    IF ~IsFastq(file) THEN d
    ELSE LET sample == SampleOf(file)
             d1 == IF IndexOfSample(d, sample) = 0
                   THEN Append(d, [sample |-> sample, R1 |-> None, R2 |-> None])
                   ELSE d
             i == IndexOfSample(d1, sample)
         IN  CASE RoleOf(file) = "R1" -> [d1 EXCEPT ![i].R1 = file]
               [] RoleOf(file) = "R2" -> [d1 EXCEPT ![i].R2 = file]
               [] OTHER -> d1

\* ------------------------------------------- umi_pipeline.py discovery
\* args.input_dir.glob("*R1*.fastq.gz")
GlobR1(file) ==
    /\ EndsWith(file, FASTQ_GZ)
    /\ Contains(SubSeq(file, 1, Len(file) - Len(FASTQ_GZ)), <<"R", "1">>)

\* str(fq1).replace("R1", "R2"), on the file name
ReplaceR1R2(s) ==
    [i \in 1..Len(s) |-> IF i > 1 /\ s[i - 1] = "R" /\ s[i] = "1" THEN "2" ELSE s[i]]

\* Path.stem: the name without its last suffix
Stem(s) ==
    LET dots == {i \in 1..Len(s) : s[i] = "."}
    IN  IF dots = {} THEN s
        ELSE LET i == CHOOSE x \in dots : \A y \in dots : y <= x
             IN  IF 1 < i /\ i < Len(s) THEN SubSeq(s, 1, i - 1) ELSE s

RECURSIVE RemoveAll(_, _)
\* s.replace(pat, "")
RemoveAll(s, pat) ==
    IF Len(s) < Len(pat) THEN s
    ELSE IF SubSeq(s, 1, Len(pat)) = pat
         THEN RemoveAll(SubSeq(s, Len(pat) + 1, Len(s)), pat)
         ELSE <<s[1]>> \o RemoveAll(Tail(s), pat)

\* line 121
SampleName(fq1) == RemoveAll(Stem(fq1), FASTQ_GZ)

\* lines 120-121: the unit process_fastq_pair works on
PairOf(fq1) == [sample |-> SampleName(fq1), R1 |-> fq1, R2 |-> ReplaceR1R2(fq1)]

\* lines 215, 218: the argument list of starmap
PipelineTasks ==
    LET found == SelectSeq(listing, GlobR1)
    IN  [i \in 1..Len(found) |-> PairOf(found[i])]

\* ----------------------------------------------------------- commands
MERGED == <<".", "m", "e", "r", "g", "e", "d", ".", "f", "i", "l", "t", "e", "r", "e", "d">> \o FASTQ_GZ
FILTERED_R1 == <<".", "f", "i", "l", "t", "e", "r", "e", "d", ".", "R", "1">> \o FASTQ_GZ
FILTERED_R2 == <<".", "f", "i", "l", "t", "e", "r", "e", "d", ".", "R", "2">> \o FASTQ_GZ

\* run_fastp's return value: the filtered files, (outfile, None) when merging
FastpOutputs(sample) ==
    IF args.merge_reads
    THEN <<sample \o MERGED, None>>
    ELSE <<sample \o FILTERED_R1, sample \o FILTERED_R2>>

\* run_fastp, lines 50-64 and 68-82: the command line
FastpCmd(t) ==
    [tool |-> "fastp", r1 |-> t.R1, r2 |-> t.R2,
     mode |-> IF args.merge_reads THEN "merge" ELSE "split",
     out |-> [k \in 1..(IF args.merge_reads THEN 1 ELSE 2) |->
                FileEntry("filtered_fastqs", FastpOutputs(t.sample)[k])],
     thread |-> args.threads \div 2, bed |-> FALSE]

\* run_umierrorcorrect, lines 95-111: the command line
EcCmd(sample, r1, r2) ==
    [tool |-> "run_umierrorcorrect.py", r1 |-> r1,
     r2 |-> IF r2 # None THEN r2 ELSE None,
     mode |-> IF r2 # None THEN "paired" ELSE "single",
     out |-> <<FileEntry("umi_corrected_samples", sample)>>,
     thread |-> args.threads, bed |-> args.bed]

\* the error-correction call handing on r2 whatever --merge says
EcCallKeepR2(t, r1, r2) == EcCmd(t.sample, r1, r2)

\* process_fastq_pair, lines 138-143: the error-correction call on (r1, r2)
EcCall(t, r1, r2) == EcCmd(t.sample, r1, IF ~args.merge_reads THEN r2 ELSE None)

\* process_sample, lines 36-53: the command line (mode "paired" is the -p flag; the
\* tool is given no thread count, -b always, and -o args_dict['output'], the run's
\* output directory itself)
ForensicsCmd(t) ==
    [tool |-> "run_umierrorcorrect_forensics.py", r1 |-> t.R1,
     r2 |-> IF t.R2 # None THEN t.R2 ELSE None,
     mode |-> IF t.R2 # None THEN "paired" ELSE "single",
     out |-> <<DirEntry("output")>>,
     thread |-> 0, bed |-> TRUE]

\* --------------------------------------------------------------- pool
\* a pool with one worker more than --threads
PoolSizePlusOne == args.threads + 1

\* mp.Pool(args.threads) / multiprocessing.Pool(processes=args.threads)
PoolSize == args.threads

\* starmap's default chunksize
ChunkSize ==
    IF Len(tasks) = 0 THEN 0
    ELSE LET q == Len(tasks) \div (PoolSize * 4)
             r == Len(tasks) % (PoolSize * 4)
         IN  IF r # 0 THEN q + 1 ELSE q

NumChunks == IF ChunkSize = 0 THEN 0 ELSE (Len(tasks) + ChunkSize - 1) \div ChunkSize
ChunkFirst(c) == (c - 1) * ChunkSize + 1
ChunkLast(c) == Min(c * ChunkSize, Len(tasks))
ChunkOf(i) == ((i - 1) \div ChunkSize) + 1

\* a worker is idle: the workers are interchangeable processes, each at one item
\* at most, and busy holds the items they are at
IdleWorker == Cardinality(busy) < PoolSize

\* the first lines of the mapped function, up to its first external command:
\* process_fastq_pair lines 120-143 (to the launch of fastp or, without filtering,
\* of run_umierrorcorrect.py), process_sample lines 36-59 (to the launch of the
\* tool, or to the return at line 40)
BeginItem(t) ==
    IF script = "pipeline"
    THEN IF args.do_filtering
         THEN [status |-> "fastp", cmd |-> <<FastpCmd(t)>>,
               msgs |-> {Msg("Processing sample", t.sample)}]
         ELSE [status |-> "ec", cmd |-> <<EcCall(t, t.R1, t.R2)>>,
               msgs |-> {Msg("Processing sample", t.sample)}]
    ELSE IF t.R1 = None
         THEN [status |-> "skipped", cmd |-> <<>>,
               msgs |-> {Msg("Warning: No R1 file found, skipping", t.sample)}]
         ELSE [status |-> "tool", cmd |-> <<ForensicsCmd(t)>>,
               msgs |-> {Msg("Processing sample", t.sample)}]

RECURSIVE RunChunkFrom(_, _, _, _, _)
\* starmapstar: the worker calls the mapped function on items i..last of its chunk,
\* one after the other, up to the first that waits for an external command;
\* at = 0 when the chunk is through
RunChunkFrom(i, last, st, cm, lg) ==
    IF i > last
    THEN [status |-> st, cmds |-> cm, log |-> lg, at |-> 0]
    ELSE LET b == BeginItem(tasks[i])
             st1 == [st EXCEPT ![i] = b.status]
             cm1 == [cm EXCEPT ![i] = @ \o b.cmd]
             lg1 == lg \cup b.msgs
         IN  IF b.status \in Running
             THEN [status |-> st1, cmds |-> cm1, log |-> lg1, at |-> i]
             ELSE RunChunkFrom(i + 1, last, st1, cm1, lg1)

\* the worker that was at item i (0: that took a new chunk) is now at r.at, or
\* idle with its chunk's result handed back
WorkerGoesOn(i, r) ==
    /\ status' = r.status
    /\ cmds' = r.cmds
    /\ log' = r.log
    /\ busy' = (busy \ {i}) \cup (IF r.at = 0 THEN {} ELSE {r.at})
    /\ doneChunks' = IF r.at = 0 THEN doneChunks + 1 ELSE doneChunks

\* an idle worker takes the next chunk of the queue
Dispatch ==
    /\ pc = "pool"
    /\ IdleWorker
    /\ nextChunk <= NumChunks
    /\ nextChunk' = nextChunk + 1
    /\ WorkerGoesOn(0, RunChunkFrom(ChunkFirst(nextChunk), ChunkLast(nextChunk),
                                    status, cmds, log))
    /\ UNCHANGED <<script, args, env, listing, pc, exitcode, outfs, scanned,
                   fastq_files, tasks, raised, exits, qcFiles, qcCalls, qcExits>>

FailedAs(rc) == IF rc = "nonzero" THEN "failed_exit" ELSE "failed_launch"

\* process_fastq_pair going on to error correction whatever fastp's exit status
PipelineToolExitSwallow(t, st, rc) ==
    IF st = "fastp"
    THEN LET o == FastpOutputs(t.sample)
         IN  [then |-> "tool", status |-> "ec", cmd |-> <<EcCall(t, o[1], o[2])>>,
              files |-> {}, msgs |-> {}]
    ELSE IF rc = "ok"
         THEN [then |-> "return", status |-> "ok", cmd |-> <<>>, files |-> {}, msgs |-> {}]
         ELSE [then |-> "raise", status |-> FailedAs(rc), cmd |-> <<>>, files |-> {},
               msgs |-> {Msg("Error processing", t.sample)}]

\* subprocess.run(cmd, check=True) returns or raises in process_fastq_pair:
\* run_fastp lines 65-66, 83-87, run_umierrorcorrect lines 113-116, lines 138-146.
\* then: "tool" the item launches its next command, "return" the mapped function
\* returns, "raise" an exception leaves it
PipelineToolExit(t, st, rc) ==
    IF rc = "ok"
    THEN IF st = "fastp"
         THEN LET o == FastpOutputs(t.sample)
              IN  [then |-> "tool", status |-> "ec", cmd |-> <<EcCall(t, o[1], o[2])>>,
                   files |-> {FileEntry("filtered_fastqs", f) : f \in {o[1], o[2]} \ {None}},
                   msgs |-> {}]
         ELSE [then |-> "return", status |-> "ok", cmd |-> <<>>, files |-> {}, msgs |-> {}]
    ELSE [then |-> "raise", status |-> FailedAs(rc), cmd |-> <<>>, files |-> {},
          msgs |-> (IF rc = "nonzero"
                    THEN {Msg(IF st = "fastp" THEN "Error running fastp"
                              ELSE "Error running umierrorcorrect", t.sample)}
                    ELSE {})
                   \cup {Msg("Error processing", t.sample)}]

\* process_sample launching the tool again after a non-zero exit
ForensicsToolExitRetry(t, st, rc) ==
    CASE rc = "ok" ->
           [then |-> "return", status |-> "ok", cmd |-> <<>>, files |-> {}, msgs |-> {}]
      [] rc = "nonzero" ->
           [then |-> "tool", status |-> "tool", cmd |-> <<ForensicsCmd(t)>>, files |-> {},
            msgs |-> {Msg("Error processing sample", t.sample)}]
      [] OTHER ->
           [then |-> "raise", status |-> "failed_launch", cmd |-> <<>>, files |-> {},
            msgs |-> {}]

\* subprocess.run(cmd, check=True) returns or raises in process_sample, lines 58-61:
\* only CalledProcessError is caught
ForensicsToolExit(t, st, rc) ==
    CASE rc = "ok" ->
           [then |-> "return", status |-> "ok", cmd |-> <<>>, files |-> {}, msgs |-> {}]
      [] rc = "nonzero" ->
           [then |-> "return", status |-> "failed_exit", cmd |-> <<>>, files |-> {},
            msgs |-> {Msg("Error processing sample", t.sample)}]
      [] OTHER ->
           [then |-> "raise", status |-> "failed_launch", cmd |-> <<>>, files |-> {},
            msgs |-> {}]

Failures == Cardinality({i \in DOMAIN status : status[i] \in {"failed_exit", "failed_launch"}})

\* the exit statuses a launch can end with: umi_pipeline.py has found its tools
\* installed (check_dependencies), umi_forensics.py checks nothing
OutcomesOf(sc) == IF sc = "pipeline" THEN {"ok", "nonzero"} ELSE Outcomes

\* the external command the worker at item i waits for ends.  After a normal return
\* the worker goes on with the rest of its chunk; an exception ends the chunk
\* (starmapstar runs the items of a chunk in one call) and is the chunk's result
ToolExit(i, rc) ==
    /\ pc = "pool"
    /\ i \in busy
    /\ rc \in OutcomesOf(script)
    /\ rc # "ok" => Failures < MaxFailures
    /\ LET x == IF script = "pipeline"
                THEN PipelineToolExit(tasks[i], status[i], rc)
                ELSE ForensicsToolExit(tasks[i], status[i], rc)
           st1 == [status EXCEPT ![i] = x.status]
           cm1 == [cmds EXCEPT ![i] = @ \o x.cmd]
           lg1 == log \cup x.msgs
       IN  /\ outfs' = outfs \cup x.files
           /\ exits' = [exits EXCEPT ![i] = Append(@, rc)]
           /\ raised' = (raised \/ x.then = "raise")
           /\ CASE x.then = "tool" ->
                     WorkerGoesOn(i, [status |-> st1, cmds |-> cm1, log |-> lg1, at |-> i])
                [] x.then = "return" ->
                     WorkerGoesOn(i, RunChunkFrom(i + 1, ChunkLast(ChunkOf(i)), st1, cm1, lg1))
                [] OTHER ->
                     WorkerGoesOn(i, [status |-> st1, cmds |-> cm1, log |-> lg1, at |-> 0])
    /\ UNCHANGED <<script, args, env, listing, pc, exitcode, scanned, fastq_files,
                   tasks, nextChunk, qcFiles, qcCalls, qcExits>>

\* starmap returning as soon as every chunk has been handed to a worker
PoolAllDispatched == nextChunk > NumChunks

\* starmap returns (or raises) once the result of every chunk has arrived
PoolDrained == doneChunks = NumChunks

StartPool(items) ==
    /\ tasks' = items
    /\ status' = [i \in 1..Len(items) |-> "pending"]
    /\ cmds' = [i \in 1..Len(items) |-> <<>>]
    /\ exits' = [i \in 1..Len(items) |-> <<>>]
    /\ busy' = {}
    /\ nextChunk' = 1
    /\ doneChunks' = 0
    /\ raised' = FALSE
    /\ pc' = "pool"

\* ------------------------------------------------ umi_pipeline.py main
MainUnchanged == UNCHANGED <<script, args, env, listing, scanned, fastq_files>>
PoolUnchanged ==
    UNCHANGED <<tasks, status, busy, nextChunk, doneChunks, raised, cmds, exits>>

\* sys.exit(code), or the interpreter ending on an uncaught exception (code 1)
Exit(code) ==
    /\ pc' = "done"
    /\ exitcode' = code

\* check_dependencies, lines 24-31
CheckDependencies == RequiredTools \cap env.missing = {}

\* check_paths without its test of the reference
CheckPathsNoReference ==
    /\ env.input_dir
    /\ (args.bed => env.bed)

\* check_paths, lines 33-43
CheckPaths ==
    /\ env.input_dir
    /\ env.reference
    /\ (args.bed => env.bed)

\* lines 202-207: the output directories are made, then logging is set up; mkdir
\* raises when the input directory is not there
P_Setup ==
    /\ script = "pipeline"
    /\ pc = "setup"
    /\ IF env.input_dir
       THEN /\ outfs' = outfs \cup {DirEntry(d) : d \in OutDirs}
            /\ pc' = "check"
            /\ UNCHANGED exitcode
       ELSE /\ Exit(1)
            /\ UNCHANGED outfs
    /\ UNCHANGED <<qcFiles, qcCalls, qcExits, log>>
    /\ MainUnchanged
    /\ PoolUnchanged

\* lines 210-211
P_Check ==
    /\ script = "pipeline"
    /\ pc = "check"
    /\ IF ~CheckDependencies
       THEN /\ log' = log \cup {Msg("Missing dependencies", None)}
            /\ Exit(1)
       ELSE IF ~CheckPaths
            THEN /\ log' = log \cup {Msg("All dependencies are present.", None),
                                     Msg("path not found", None)}
                 /\ Exit(1)
            ELSE /\ log' = log \cup {Msg("All dependencies are present.", None)}
                 /\ pc' = "process"
                 /\ UNCHANGED exitcode
    /\ UNCHANGED <<outfs, qcFiles, qcCalls, qcExits>>
    /\ MainUnchanged
    /\ PoolUnchanged

\* lines 215-218: glob, the pool is created and starmap hands it the list
P_Process ==
    /\ script = "pipeline"
    /\ pc = "process"
    /\ StartPool(PipelineTasks)
    /\ UNCHANGED <<exitcode, outfs, qcFiles, qcCalls, qcExits, log>>
    /\ MainUnchanged

\* lines 216-221: starmap returns, or raises the first exception of a chunk
P_PoolReturn ==
    /\ script = "pipeline"
    /\ pc = "pool"
    /\ PoolDrained
    /\ IF raised
       THEN /\ log' = log \cup {Msg("Error during FASTQ processing", None)}
            /\ Exit(1)
       ELSE /\ pc' = "qc"
            /\ UNCHANGED <<exitcode, log>>
    /\ UNCHANGED <<outfs, qcFiles, qcCalls, qcExits>>
    /\ MainUnchanged
    /\ PoolUnchanged

RECURSIVE FilteredFiles(_)
\* the files the filtering stage left in filtered_fastqs, tasks 1..n
FilteredFiles(n) ==
    IF n = 0 THEN <<>>
    ELSE FilteredFiles(n - 1)
         \o SelectSeq(FastpOutputs(tasks[n].sample),
                      LAMBDA f : FileEntry("filtered_fastqs", f) \in outfs)

\* run_dir.rglob("*.fastq.gz"), line 155: the input files and the filtered ones
RglobFastqGz ==
    SelectSeq(listing, LAMBDA f : EndsWith(f, FASTQ_GZ)) \o FilteredFiles(Len(tasks))

QcCmd(tool, file) == [tool |-> tool, file |-> file]

\* run_qc, lines 150-155
P_RunQc ==
    /\ script = "pipeline"
    /\ pc = "qc"
    /\ outfs' = outfs \cup {DirEntry("qc_reports")}
    /\ qcFiles' = IF ~args.skip_fastqc /\ "fastqc" \notin env.missing
                  THEN RglobFastqGz ELSE <<>>
    /\ pc' = "fastqc"
    /\ UNCHANGED <<exitcode, qcCalls, qcExits, log>>
    /\ MainUnchanged
    /\ PoolUnchanged

\* the reporting commands that have ended with a failure
ReportFailures == Cardinality({k \in DOMAIN qcExits : qcExits[k] # "ok"})

\* the fastqc loop with no except clause: the error leaves run_qc and main
P_FastqcUncaught(rc) ==
    /\ script = "pipeline"
    /\ pc = "fastqc"
    /\ Len(qcCalls) < Len(qcFiles)
    /\ rc # "ok" => ReportFailures < MaxReportFailures
    /\ qcCalls' = Append(qcCalls, QcCmd("fastqc", qcFiles[Len(qcCalls) + 1]))
    /\ qcExits' = Append(qcExits, rc)
    /\ IF rc = "ok"
       THEN UNCHANGED <<pc, exitcode>>
       ELSE Exit(1)
    /\ UNCHANGED <<outfs, qcFiles, log>>
    /\ MainUnchanged
    /\ PoolUnchanged

\* run_qc, lines 156-160: one turn of the loop
P_Fastqc(rc) ==
    /\ script = "pipeline"
    /\ pc = "fastqc"
    /\ Len(qcCalls) < Len(qcFiles)
    /\ rc # "ok" => ReportFailures < MaxReportFailures
    /\ qcCalls' = Append(qcCalls, QcCmd("fastqc", qcFiles[Len(qcCalls) + 1]))
    /\ qcExits' = Append(qcExits, rc)
    /\ log' = IF rc = "ok" THEN log
              ELSE log \cup {Msg("Error running FastQC", qcFiles[Len(qcCalls) + 1])}
    /\ UNCHANGED <<pc, exitcode, outfs, qcFiles>>
    /\ MainUnchanged
    /\ PoolUnchanged

\* run_qc, lines 162-167, and lines 225-228: main returns
P_Multiqc(rc) ==
    /\ script = "pipeline"
    /\ pc = "fastqc"
    /\ Len(qcCalls) = Len(qcFiles)
    /\ IF ~args.skip_multiqc /\ "multiqc" \notin env.missing
       THEN /\ rc # "ok" => ReportFailures < MaxReportFailures
            /\ qcCalls' = Append(qcCalls, QcCmd("multiqc", None))
            /\ qcExits' = Append(qcExits, rc)
            /\ log' = (IF rc = "ok" THEN log ELSE log \cup {Msg("Error running MultiQC", None)})
                      \cup {Msg("Processing complete.", None)}
       ELSE /\ rc = "ok"
            /\ UNCHANGED <<qcCalls, qcExits>>
            /\ log' = log \cup {Msg("Processing complete.", None)}
    /\ Exit(0)
    /\ UNCHANGED <<outfs, qcFiles>>
    /\ MainUnchanged
    /\ PoolUnchanged

\* ----------------------------------------------- umi_forensics.py main
\* line 77
F_Makedirs ==
    /\ script = "forensics"
    /\ pc = "setup"
    /\ outfs' = outfs \cup {DirEntry("output")}
    /\ pc' = "scan"
    /\ UNCHANGED <<exitcode, qcFiles, qcCalls, qcExits, log>>
    /\ MainUnchanged
    /\ PoolUnchanged

\* find_fastq_pairs, lines 16-30: the next file of the walk
F_ScanFile ==
    /\ script = "forensics"
    /\ pc = "scan"
    /\ scanned < Len(listing)
    /\ fastq_files' = AddFile(fastq_files, listing[scanned + 1])
    /\ scanned' = scanned + 1
    /\ UNCHANGED <<script, args, env, listing, pc, exitcode, outfs, qcFiles, qcCalls, qcExits, log>>
    /\ PoolUnchanged

\* lines 32, 80-96: the dict is returned and its items handed to starmap
F_Process ==
    /\ script = "forensics"
    /\ pc = "scan"
    /\ scanned = Len(listing)
    /\ StartPool(fastq_files)
    /\ UNCHANGED <<exitcode, outfs, qcFiles, qcCalls, qcExits, log>>
    /\ MainUnchanged

\* lines 95-96: starmap returns and main ends, or the exception of a chunk is
\* raised in main and nothing catches it
F_PoolReturn ==
    /\ script = "forensics"
    /\ pc = "pool"
    /\ PoolDrained
    /\ Exit(IF raised THEN 1 ELSE 0)
    /\ UNCHANGED <<outfs, qcFiles, qcCalls, qcExits, log>>
    /\ MainUnchanged
    /\ PoolUnchanged

\* ------------------------------------------------------ specification
Next ==
    \/ P_Setup
    \/ P_Check
    \/ P_Process
    \/ P_PoolReturn
    \/ P_RunQc
    \/ \E rc \in {"ok", "nonzero"} : P_Fastqc(rc)
    \/ \E rc \in {"ok", "nonzero"} : P_Multiqc(rc)
    \/ F_Makedirs
    \/ F_ScanFile
    \/ F_Process
    \/ F_PoolReturn
    \/ Dispatch
    \/ \E i \in busy, rc \in Outcomes : ToolExit(i, rc)

Spec == Init /\ [][Next]_vars

\* ------------------------------------------------------------- claims
Range(f) == {f[i] : i \in DOMAIN f}

\* the sample pipelines that have started and have not ended
InProgress == {i \in DOMAIN status : status[i] \in Running}

Failed == {i \in DOMAIN status : status[i] \in {"failed_exit", "failed_launch"}}

\* starmap has returned or raised in main
PoolOver == pc \in {"qc", "fastqc", "done"} /\ DOMAIN status # {}

\* the tools that do a sample's error correction
EcTools == {"run_umierrorcorrect.py", "run_umierrorcorrect_forensics.py"}

\* C1: in every reachable state of either script, at most --threads sample
\* pipelines have started and not yet ended.
C1_BoundedConcurrency == Cardinality(InProgress) <= args.threads

\* more samples than workers, every worker busy and chunks still waiting
C1_Witness ==
    /\ args.threads = MaxThreads
    /\ Len(tasks) > args.threads
    /\ Cardinality(InProgress) = args.threads
    /\ nextChunk <= NumChunks

\* C2: when a stage of exactly one sample of umi_pipeline.py exits non-zero, every
\* other sample has run all its stages to completion when the pool is through.
C2_FailureContained ==
    (script = "pipeline" /\ PoolOver /\ Cardinality(Failed) = 1)
        => \A i \in DOMAIN status : i \notin Failed => status[i] = "ok"

\* C3: when starmap has returned control to main, every sample unit is in a
\* terminal state: none is left unstarted or in progress.
C3_AllTerminalOnReturn ==
    PoolOver => \A i \in DOMAIN status : status[i] \in Terminal

\* the per-file and the aggregate report have been run, unless skipped
ReportingRan ==
    /\ ~args.skip_fastqc =>
          Range(RglobFastqGz) \subseteq {c.file : c \in {d \in Range(qcCalls) : d.tool = "fastqc"}}
    /\ ~args.skip_multiqc => \E c \in Range(qcCalls) : c.tool = "multiqc"

\* C4: a run of umi_pipeline.py in which a sample failed ends with a non-zero exit
\* status, and has run the reporting stages before it ends.
C4_ReportThenFail ==
    (script = "pipeline" /\ pc = "done" /\ Failed # {})
        => (exitcode # 0 /\ ReportingRan)

\* a dependency is missing, or the input directory, the reference or the given
\* region file is not there
BadConfig ==
    \/ env.missing # {}
    \/ ~env.input_dir
    \/ ~env.reference
    \/ (args.bed /\ ~env.bed)

\* C5: with a bad configuration umi_pipeline.py never reaches the pool or the
\* reporting, launches no stage and no report, and ends with exit status 1.
C5_BadConfigRunsNothing ==
    (script = "pipeline" /\ BadConfig)
        => /\ pc \in {"setup", "check", "done"}
           /\ \A i \in DOMAIN cmds : cmds[i] = <<>>
           /\ qcCalls = <<>>
           /\ pc = "done" => exitcode = 1

\* the reference is missing, the directory holds samples, and the run has ended
C5_Witness ==
    /\ script = "pipeline"
    /\ ~env.reference
    /\ env.input_dir
    /\ listing # <<>>
    /\ pc = "done"
    /\ exitcode = 1

\* C6: a run of umi_pipeline.py with a missing reference leaves what is under the
\* output directories as it found it.
C6_NoWritesOnBadReference ==
    (script = "pipeline" /\ ~env.reference) => outfs = InitialOutFs(env)

\* C7: with filtering on, a sample's error correction is launched only as its
\* second command, after its fastp has exited with success; after a failed fastp
\* it is never launched.
C7_FilterThenCorrect ==
    (script = "pipeline" /\ args.do_filtering)
        => \A i \in DOMAIN cmds : \A k \in DOMAIN cmds[i] :
              cmds[i][k].tool \in EcTools
                  => /\ k = 2
                     /\ cmds[i][1].tool = "fastp"
                     /\ Len(exits[i]) >= 1
                     /\ exits[i][1] = "ok"

\* one sample is at error correction after its fastp succeeded, another one's
\* fastp failed and it stopped there
C7_Witness ==
    /\ script = "pipeline"
    /\ args.do_filtering
    /\ \E i \in DOMAIN cmds :
          /\ Len(cmds[i]) = 2
          /\ cmds[i][2].tool \in EcTools
          /\ exits[i][1] = "ok"
    /\ \E j \in DOMAIN cmds :
          /\ exits[j] = <<"nonzero">>
          /\ Len(cmds[j]) = 1
          /\ cmds[j][1].tool = "fastp"
          /\ status[j] = "failed_exit"

\* the prefixes of the listings
AllPrefixes == Prefixes \cup {<<FillNames[i]>> : i \in 1..MaxSamples}

\* find_fastq_pairs has returned
Discovered == script = "forensics" /\ pc \in {"pool", "done"}

\* C8: when the directory holds <prefix>_R1_<n>.fastq.gz and
\* <prefix>_R2_<n>.fastq.gz, find_fastq_pairs returns exactly one entry named
\* <prefix>, with the first file as R1 and the second as R2.
C8_PairDiscovered ==
    Discovered =>
        \A p \in AllPrefixes : \A n \in {<<"1">>, <<"1", "2">>} :
            ({R1File(p, n, FASTQ_GZ), R2File(p, n, FASTQ_GZ)} \subseteq Range(listing))
                => /\ Cardinality({i \in DOMAIN tasks : tasks[i].sample = p}) = 1
                   /\ \A i \in DOMAIN tasks :
                         tasks[i].sample = p
                             => /\ tasks[i].R1 = R1File(p, n, FASTQ_GZ)
                                /\ tasks[i].R2 = R2File(p, n, FASTQ_GZ)

\* the unit's R1 is the file <prefix>_R1_<n><ext> of the directory and the
\* directory holds no <prefix>_R2_<n><ext>
PrimaryOnly(t) ==
    \E p \in AllPrefixes : \E v \in Variants :
        /\ t.R1 = R1File(p, v[1], v[2])
        /\ R1File(p, v[1], v[2]) \in Range(listing)
        /\ R2File(p, v[1], v[2]) \notin Range(listing)

\* C9: for a sample with an R1 file and no R2 file, error correction is launched in
\* single mode, with no second read.
C9_PrimaryOnlySingleMode ==
    \A i \in DOMAIN tasks :
        PrimaryOnly(tasks[i])
            => \A k \in DOMAIN cmds[i] :
                  cmds[i][k].tool \in EcTools
                      => (cmds[i][k].r2 = None /\ cmds[i][k].mode = "single")

\* the directory holds <prefix>_R2_<n><ext>, a read file, and no <prefix>_R1_<n><ext>
SecondaryOnly(p, v) ==
    /\ IsFastq(R2File(p, v[1], v[2]))
    /\ R2File(p, v[1], v[2]) \in Range(listing)
    /\ R1File(p, v[1], v[2]) \notin Range(listing)

\* C10: a sample with an R2 file only is left out of the run: no unit of that name
\* is ever started or has a command launched (the entry find_fastq_pairs returns
\* with R1 None, which process_sample drops, counts as left out), no external tool
\* is launched on its file, and once the run has ended the exclusion has been logged.
C10_SecondaryOnlyExcluded ==
    Discovered =>
        \A p \in AllPrefixes : \A v \in Variants :
            SecondaryOnly(p, v)
                => /\ \A i \in DOMAIN tasks :
                         tasks[i].sample = p
                             => (status[i] \notin Running \cup {"ok"} /\ cmds[i] = <<>>)
                   /\ \A i \in DOMAIN cmds : \A k \in DOMAIN cmds[i] :
                         R2File(p, v[1], v[2]) \notin {cmds[i][k].r1, cmds[i][k].r2}
                   /\ pc = "done" => Msg("Warning: No R1 file found, skipping", p) \in log

\* the message run_qc logs for the failure of its k-th reporting command
ReportErrorOf(k) ==
    IF qcCalls[k].tool = "fastqc"
    THEN Msg("Error running FastQC", qcCalls[k].file)
    ELSE Msg("Error running MultiQC", None)

\* C11: every reporting command that exits non-zero is logged; a run in which one
\* did ends with the exit status sample processing gave it, and has launched the
\* per-file report on every listed file and, unless skipped, the aggregate report.
C11_ReportFailureBestEffort ==
    script = "pipeline" =>
        /\ \A k \in DOMAIN qcExits : qcExits[k] # "ok" => ReportErrorOf(k) \in log
        /\ (pc = "done" /\ ReportFailures > 0)
              => /\ exitcode = (IF raised THEN 1 ELSE 0)
                 /\ \A j \in DOMAIN qcFiles : qcCalls[j] = QcCmd("fastqc", qcFiles[j])
                 /\ ~args.skip_multiqc => qcCalls[Len(qcCalls)].tool = "multiqc"

\* a per-file report that was not the last one failed, so did the aggregate
\* report, and the run has ended
C11_Witness ==
    /\ script = "pipeline"
    /\ pc = "done"
    /\ \E k \in DOMAIN qcExits :
          /\ k < Len(qcFiles)
          /\ qcCalls[k].tool = "fastqc"
          /\ qcExits[k] = "nonzero"
    /\ qcCalls[Len(qcCalls)].tool = "multiqc"
    /\ qcExits[Len(qcExits)] = "nonzero"

\* the output paths a command line names
OutPaths(c) == Range(c.out)

\* C12: the output paths named on the command lines of two distinct samples of a
\* run are disjoint, in either script.
C12_OutputPathsDisjoint ==
    \A i \in DOMAIN cmds : \A j \in DOMAIN cmds :
        i # j => \A k \in DOMAIN cmds[i] : \A l \in DOMAIN cmds[j] :
                    OutPaths(cmds[i][k]) \cap OutPaths(cmds[j][l]) = {}

\* the failure of sample i has been logged or printed under its name
FailureLogged(i) ==
    \E m \in log :
        /\ m.who = tasks[i].sample
        /\ m.msg \in {"Error processing sample", "Error processing"}

\* C13: when the tool of one sample could not be launched, the failure is logged
\* for that sample and, once the pool is through, every other sample has been
\* started and has run to its end.
C13_LaunchFailureContained ==
    PoolOver =>
        \A i \in DOMAIN status :
            status[i] = "failed_launch"
                => /\ FailureLogged(i)
                   /\ \A j \in DOMAIN status \ {i} : status[j] \in {"ok", "skipped"}

\* C14: in umi_pipeline.py, with --merge every error-correction command has one
\* input, no second read and mode single; without --merge and with filtering on it
\* has the sample's two filtered files as its reads and mode paired.
C14_MergeSingleSplitPaired ==
    script = "pipeline" =>
        \A i \in DOMAIN cmds : \A k \in DOMAIN cmds[i] :
            LET c == cmds[i][k]
            IN  c.tool \in EcTools
                    => /\ args.merge_reads
                            => (c.r1 # None /\ c.r2 = None /\ c.mode = "single")
                       /\ (~args.merge_reads /\ args.do_filtering)
                            => /\ c.r1 = tasks[i].sample \o FILTERED_R1
                               /\ c.r2 = tasks[i].sample \o FILTERED_R2
                               /\ c.mode = "paired"

\* --merge without filtering on a sample whose R2 file is in the directory: its
\* error correction has been launched
C14_Witness ==
    /\ script = "pipeline"
    /\ args.merge_reads
    /\ ~args.do_filtering
    /\ \E i \in DOMAIN cmds :
          /\ tasks[i].R2 \in Range(listing)
          /\ Len(cmds[i]) = 1
          /\ cmds[i][1].tool \in EcTools

Max(a, b) == IF a >= b THEN a ELSE b

\* C15: the --thread value on every fastp command line is
\* max(1, floor(threads / 2)), never 0.
C15_FilteringThreads ==
    \A i \in DOMAIN cmds : \A k \in DOMAIN cmds[i] :
        cmds[i][k].tool = "fastp"
            => cmds[i][k].thread = Max(1, args.threads \div 2)

\* C16: no command of a sample is launched twice, in either script: the commands
\* launched for a sample are of different tools, and a command that ended with a
\* failure is the sample's last.
C16_NoRetry ==
    \A i \in DOMAIN cmds :
        /\ \A k \in DOMAIN cmds[i] : \A l \in DOMAIN cmds[i] :
              k # l => cmds[i][k].tool # cmds[i][l].tool
        /\ \A k \in DOMAIN exits[i] : exits[i][k] # "ok" => k = Len(cmds[i])

\* the run has ended and one of its samples had a command that failed
C16_Witness ==
    /\ pc = "done"
    /\ \E i \in DOMAIN cmds :
          /\ exits[i] # <<>>
          /\ exits[i][Len(exits[i])] # "ok"
          /\ status[i] \in {"failed_exit", "failed_launch"}

\* the positions of the aggregate report among the reporting commands
AggregateCalls == {k \in DOMAIN qcCalls : qcCalls[k].tool = "multiqc"}

\* C17: multiqc is launched at most once in a run, and when it has been, every
\* sample has ended, none is unstarted or in progress, and the per-file report of
\* every listed file was launched before it and has ended.
C17_AggregateOnceAtEnd ==
    /\ Cardinality(AggregateCalls) <= 1
    /\ \A k \in AggregateCalls :
          /\ \A i \in DOMAIN status : status[i] \in Terminal
          /\ k = Len(qcFiles) + 1
          /\ \A j \in DOMAIN qcFiles :
                qcCalls[j] = QcCmd("fastqc", qcFiles[j]) /\ j \in DOMAIN qcExits

\* multiqc has been launched in a run of several samples with per-file reports
C17_Witness ==
    /\ AggregateCalls # {}
    /\ Len(tasks) >= 2
    /\ Len(qcFiles) >= 2

\* the names of the files the filtering stage has produced
Filtered == {e.file : e \in {x \in outfs : x.dir = "filtered_fastqs" /\ x.file # None}}

\* the positions of the per-file reports on file f
PerFileCalls(f) == {k \in DOMAIN qcCalls : qcCalls[k] = QcCmd("fastqc", f)}

\* C18: with the per-file report not skipped, fastqc is launched on filtered files
\* only, and when the run has ended with success it has been launched exactly once
\* on each of them.
C18_PerFileOnFilteredOnly ==
    (script = "pipeline" /\ ~args.skip_fastqc)
        => /\ \A k \in DOMAIN qcCalls :
                 qcCalls[k].tool = "fastqc" => qcCalls[k].file \in Filtered
           /\ (pc = "done" /\ exitcode = 0)
                 => \A f \in Filtered : Cardinality(PerFileCalls(f)) = 1

\* C19: with --no_filtering and --merge, the only command of a sample is its error
\* correction, in single mode on its raw R1 file, and its R2 file is on no command
\* line of the run, a reporting command's included.
C19_MergeUnfilteredNeverUsesR2 ==
    (script = "pipeline" /\ ~args.do_filtering /\ args.merge_reads)
        => \A i \in DOMAIN tasks :
              /\ \A k \in DOMAIN cmds[i] :
                    /\ cmds[i][k].tool \in EcTools
                    /\ cmds[i][k].r1 = tasks[i].R1
                    /\ cmds[i][k].r2 = None
                    /\ cmds[i][k].mode = "single"
              /\ \A j \in DOMAIN cmds : \A k \in DOMAIN cmds[j] :
                    tasks[i].R2 \notin {cmds[j][k].r1, cmds[j][k].r2}
              /\ \A k \in DOMAIN qcCalls : qcCalls[k].file # tasks[i].R2

====
